---- MODULE Spec2Model ----
(***************************************************************************)
(* The completion queue of an io_uring instance (src/src/cqueue.rs): the   *)
(* ring descriptor Inner, the consumer view CompletionQueue borrowed from  *)
(* it, and the kernel that produces entries into the shared ring.          *)
(*                                                                         *)
(* A u32 is the pair <<hi, lo>> of its 16-bit halves, so that the counters *)
(* keep their full 32-bit width (values near 2^32 - 1 included) and        *)
(* wrapping_add / wrapping_sub are computed as the machine computes them.  *)
(***************************************************************************)
EXTENDS Integers, Sequences, FiniteSets, TLC

\* ------------------------------------------------------------- bounds
\* log2 of the ring's capacity (the kernel sizes the ring to a power of two)
RingOrder == 1
\* entries the kernel announces in one behaviour
MaxProduced == 3
\* completions the kernel drops in one behaviour
MaxOverflow == 1
\* calls of the unsafe pop() on an empty view in one behaviour
MaxEmptyPops == 1
\* longest buffer handed to fill()
MaxBuf == 2
\* views alive at once through borrow_shared
MaxViews == 2

\* ------------------------------------------------------------- u32
\* 2^16: one half of a 32-bit word
Half == 65536

U32 == (0 .. Half - 1) \X (0 .. Half - 1)

\* the u32 whose value is the natural n (n < 2^31)
u32(n) == <<n \div Half, n % Half>>

\* u32::wrapping_add(x, n) for a small natural n
wrapping_add(x, n) ==
    LET lo == x[2] + n
    IN  <<(x[1] + (lo \div Half)) % Half, lo % Half>>

\* u32::wrapping_sub(a, b)
wrapping_sub(a, b) ==
    LET lo == a[2] - b[2]
        br == IF lo < 0 THEN 1 ELSE 0
    IN  <<(a[1] - b[1] - br + Half) % Half, (lo + Half) % Half>>

RECURSIVE BitAndNat(_, _)
BitAndNat(a, b) ==
    IF a = 0 \/ b = 0 THEN 0
    ELSE (a % 2) * (b % 2) + 2 * BitAndNat(a \div 2, b \div 2)

\* the & of two u32
bitand(x, y) == <<BitAndNat(x[1], y[1]), BitAndNat(x[2], y[2])>>

\* x as usize, for the values that fit TLC's integers (x < 2^31)
as_usize(x) == x[1] * Half + x[2]

\* a <= n, for a u32 a and a natural n < 2^16
u32_le(a, n) == a[1] = 0 /\ a[2] <= n

\* std::cmp::min(a, n) of a usize held as a u32 and a small natural
cmp_min(a, n) == IF u32_le(a, n) THEN a[2] ELSE n

\* ------------------------------------------------------------- the ring
\* Inner::ring_entries and Inner::ring_mask, read once from the mapping
ring_entries == 2 ^ RingOrder
ring_mask == u32(ring_entries - 1)

\* sys::IORING_CQ_EVENTFD_DISABLED
IORING_CQ_EVENTFD_DISABLED == 1

Slots == 0 .. ring_entries - 1
ViewIds == 1 .. MaxViews

\* A completion queue entry: user_data is the producer's sequence number of
\* the completion (0: never written), state tells how much of the payload
\* the producer has written.
EmptySlot == [user_data |-> 0, state |-> "none"]

VARIABLES
    q_head,      \* *Inner::head, the shared head counter (u32)
    q_tail,      \* *Inner::tail, the shared tail counter (u32)
    q_overflow,  \* *Inner::overflow (u32)
    q_flags,     \* *Inner::flags
    cqes,        \* the entry array, slot -> entry
    k_pc,        \* the kernel's position in appending one entry
    views,       \* view id -> CompletionQueue (head, tail, and history)
    n_published, \* history: entries announced through the tail so far
    q_head_abs,  \* history: position of the shared head, not wrapped
    delivered,   \* history: every entry a view returned, in order
    empty_pops,  \* history: calls of pop() on an empty view
    last         \* history: the last operation on a view and its result

vars == <<q_head, q_tail, q_overflow, q_flags, cqes, k_pc, views,
          n_published, q_head_abs, delivered, empty_pops, last>>

shared == <<q_head, q_tail, q_overflow, q_flags, cqes>>
kernel_hist == <<k_pc, n_published>>

\* No view in this place.
NoView ==
    [alive |-> FALSE, kind |-> "none", pc |-> "ready",
     head |-> <<0, 0>>, tail |-> <<0, 0>>,
     head_abs |-> 0, tail_abs |-> 0,
     borrow_head |-> <<0, 0>>, borrow_head_abs |-> 0, borrow_tail_abs |-> 0,
     consumed |-> 0, out_start |-> 0,
     synced |-> FALSE, drained |-> FALSE,
     saw_none |-> FALSE, ever_none |-> FALSE]

NoOp == [op |-> "new", view |-> 0, arg |-> 0, ret |-> <<>>, val |-> 0,
         pre |-> NoView]

\* the counters' value at construction: a fresh ring, and a ring that has
\* run until its counters are about to wrap
Starts == {<<0, 0>>, <<Half - 1, Half - 2>>}

MaxDelivered == MaxProduced + MaxEmptyPops

Init ==
    /\ q_head \in Starts
    /\ q_tail = q_head
    /\ q_overflow = <<0, 0>>
    /\ q_flags = 0    \* eventfd_disabled: "this will always be false"
    /\ cqes = [s \in Slots |-> EmptySlot]
    /\ k_pc = "idle"
    /\ views = [v \in ViewIds |-> NoView]
    /\ n_published = 0
    /\ q_head_abs = 0
    /\ delivered = <<>>
    /\ empty_pops = 0
    /\ last = NoOp

\* ------------------------------------------------------------- the kernel
\* The producer: it writes an entry's payload into slot (tail & mask), and
\* only then increments the shared tail; it reuses a slot only when the
\* shared head has passed it, and counts a completion it cannot insert.

slot_of(pos) == as_usize(bitand(pos, ring_mask))

kernel_has_room ==
    LET used == wrapping_sub(q_tail, q_head)
    IN  used[1] = 0 /\ used[2] < ring_entries

kernel_begin ==
    /\ k_pc = "idle"
    /\ n_published < MaxProduced
    /\ kernel_has_room
    /\ cqes' = [cqes EXCEPT ![slot_of(q_tail)] =
                    [user_data |-> n_published + 1, state |-> "partial"]]
    /\ k_pc' = "writing"
    /\ UNCHANGED <<q_head, q_tail, q_overflow, q_flags, views, n_published,
                   q_head_abs, delivered, empty_pops, last>>

kernel_finish ==
    /\ k_pc = "writing"
    /\ cqes' = [cqes EXCEPT ![slot_of(q_tail)].state = "full"]
    /\ k_pc' = "written"
    /\ UNCHANGED <<q_head, q_tail, q_overflow, q_flags, views, n_published,
                   q_head_abs, delivered, empty_pops, last>>

kernel_publish ==
    /\ k_pc = "written"
    /\ q_tail' = wrapping_add(q_tail, 1)
    /\ n_published' = n_published + 1
    /\ k_pc' = "idle"
    /\ UNCHANGED <<q_head, q_overflow, q_flags, cqes, views,
                   q_head_abs, delivered, empty_pops, last>>

kernel_overflow ==
    /\ k_pc = "idle"
    /\ ~kernel_has_room
    /\ as_usize(q_overflow) < MaxOverflow
    /\ q_overflow' = wrapping_add(q_overflow, 1)
    /\ UNCHANGED <<q_head, q_tail, q_flags, cqes, k_pc, views, n_published,
                   q_head_abs, delivered, empty_pops, last>>

\* ------------------------------------------------------------- the view
\* The operations of CompletionQueue, as functions of the view w (its local
\* head and tail) and of the shared memory.

\* Inner::borrow_shared: the head and the tail a new view starts with
borrow_shared == [head |-> q_head, tail |-> q_tail]

\* len() by a subtraction that saturates at 0 instead of wrapping
len_saturating(w) ==
    IF w.tail[1] > w.head[1] \/ (w.tail[1] = w.head[1] /\ w.tail[2] >= w.head[2])
    THEN wrapping_sub(w.tail, w.head)
    ELSE u32(0)

\* ExactSizeIterator::len
len(w) == wrapping_sub(w.tail, w.head)

\* CompletionQueue::capacity
capacity == ring_entries

\* CompletionQueue::is_empty
is_empty(w) == len(w) = u32(0)

\* is_full() comparing the count with the index mask
is_full_mask(w) == len(w) = ring_mask

\* CompletionQueue::is_full
is_full(w) == len(w) = u32(capacity)

\* CompletionQueue::overflow
overflow == q_overflow

\* CompletionQueue::eventfd_disabled
eventfd_disabled == BitAndNat(q_flags, IORING_CQ_EVENTFD_DISABLED) # 0

\* Iterator::size_hint
size_hint(w) == <<len(w), len(w)>>

\* pop() stepping the head over the next entry as well
pop_skipping(w) ==
    [ret  |-> <<cqes[as_usize(bitand(w.head, ring_mask))]>>,
     head |-> wrapping_add(w.head, 2)]

\* pop() with a head that stops at 2^32-1
pop_saturating(w) ==
    [ret  |-> <<cqes[as_usize(bitand(w.head, ring_mask))]>>,
     head |-> IF w.head = <<Half - 1, Half - 1>> THEN w.head
              ELSE wrapping_add(w.head, 1)]

\* pop() reading the slot after the one the head names
pop_next_slot(w) ==
    [ret  |-> <<cqes[as_usize(bitand(wrapping_add(w.head, 1), ring_mask))]>>,
     head |-> wrapping_add(w.head, 1)]

\* CompletionQueue::pop: the entry it copies out and the local head it leaves
pop(w) ==
    [ret  |-> <<cqes[as_usize(bitand(w.head, ring_mask))]>>,
     head |-> wrapping_add(w.head, 1)]

\* next() returning the entry at the head without stepping over it
next_peek(w) ==
    IF w.head # w.tail THEN [ret |-> pop(w).ret, head |-> w.head]
    ELSE [ret |-> <<>>, head |-> w.head]

\* next() without its test of head against tail
next_unchecked(w) == pop(w)

\* next() testing the head against the shared tail, not the view's
next_live(w) ==
    IF w.head # q_tail THEN pop(w) ELSE [ret |-> <<>>, head |-> w.head]

\* Iterator::next: Some(entry) is <<entry>>, None is <<>>
next(w) ==
    IF w.head # w.tail THEN pop(w) ELSE [ret |-> <<>>, head |-> w.head]

\* CompletionQueue::fill: the loop over entries[..k], one pop each
RECURSIVE fill_loop(_, _, _)
fill_loop(w, k, acc) ==
    IF k = 0 THEN [ret |-> acc, head |-> w.head]
    ELSE LET p == pop(w)
         IN  fill_loop([w EXCEPT !.head = p.head], k - 1, acc \o p.ret)

\* fill() without the min: it pops as many entries as the buffer is long
fill_whole_buffer(w, n) == fill_loop(w, n, <<>>)

\* fill() without the min: it pops every entry of the view
fill_all(w, n) == fill_loop(w, as_usize(len(w)), <<>>)

fill(w, n) == fill_loop(w, cmp_min(len(w), n), <<>>)

\* sync() storing the local tail to the shared head
sync_store_tail(w) == w.tail

\* sync() adding what the view consumed to the shared head
sync_store_additive(w) ==
    wrapping_add(q_head, as_usize(wrapping_sub(w.head, w.borrow_head)))

\* CompletionQueue::sync, its first statement: the value stored to the
\* shared head
sync_store(w) == w.head

\* sync() keeping the tail it has
sync_load_stale(w) == w.tail

\* CompletionQueue::sync, its second statement: the local tail it loads
sync_load(w) == q_tail

\* a release that stores nothing
drop_unpublished(w) == q_head

\* a release that stores the head the view was borrowed with
drop_stale(w) == w.borrow_head

\* Drop for CompletionQueue: the value stored to the shared head
drop(w) == w.head

\* ------------------------------------------------------------- entries
\* x >> n for a u32 x and 0 <= n < 32
shr(x, n) ==
    IF n < 16
    THEN <<x[1] \div (2 ^ n),
           (x[2] \div (2 ^ n)) + (x[1] % (2 ^ n)) * (2 ^ (16 - n))>>
    ELSE <<0, x[1] \div (2 ^ (n - 16))>>

\* x as u16: the low 16 bits
as_u16(x) == x[2]

\* sys::IORING_CQE_F_BUFFER and sys::IORING_CQE_BUFFER_SHIFT, as the kernel
\* defines them
IORING_CQE_F_BUFFER == u32(1)
IORING_CQE_BUFFER_SHIFT == 16

\* buffer_select() casting the flags without shifting them
buffer_select_unshifted(flags) ==
    IF bitand(flags, IORING_CQE_F_BUFFER) # u32(0)
    THEN <<as_u16(flags)>>
    ELSE <<>>

\* buffer_select: Some(id) is <<id>>, None is <<>>
buffer_select(flags) ==
    IF bitand(flags, IORING_CQE_F_BUFFER) # u32(0)
    THEN <<as_u16(shr(flags, IORING_CQE_BUFFER_SHIFT))>>
    ELSE <<>>

\* The flags words the decoder is applied to: each half from this set.
FlagHalves ==
    {0, 1, 2, 3, 4, 5, 255, 256, 32767, 32768, Half - 2, Half - 1}
FlagWords == FlagHalves \X FlagHalves

\* A type is its size and its alignment, in bytes.
u64_t == [size |-> 8, align |-> 8]
i32_t == [size |-> 4, align |-> 4]
u32_t == [size |-> 4, align |-> 4]
array_of(t, n) == [size |-> t.size * n, align |-> t.align]

round_up(n, a) == ((n + a - 1) \div a) * a

\* #[repr(C)]: the fields in order, each at the next offset its alignment
\* allows; the size is rounded up to the largest alignment.
RECURSIVE field_end(_, _)
field_end(fields, k) ==
    IF k = 0 THEN 0
    ELSE round_up(field_end(fields, k - 1), fields[k].align) + fields[k].size

RECURSIVE max_align(_, _)
max_align(fields, k) ==
    IF k = 0 THEN 1
    ELSE LET m == max_align(fields, k - 1)
         IN  IF fields[k].align > m THEN fields[k].align ELSE m

repr_C(fields) ==
    LET a == max_align(fields, Len(fields))
    IN  [size |-> round_up(field_end(fields, Len(fields)), a), align |-> a]

\* sys::io_uring_cqe: user_data, res, flags and the empty big_cqe array
io_uring_cqe == repr_C(<<u64_t, i32_t, u32_t, array_of(u64_t, 0)>>)

\* Entry and Entry32
Entry == repr_C(<<io_uring_cqe>>)
Entry32 == repr_C(<<Entry, array_of(u64_t, 2)>>)

EntryKinds == {"Entry", "Entry32"}
EntryType(kind) == IF kind = "Entry" THEN Entry ELSE Entry32

\* mem::size_of
size_of(t) == t.size

\* cqes.add(i) counting bytes, not entries
cqes_add_bytes(t, i) == i

\* cqes.add(i) on a pointer to entries of type t: the byte offset of slot i
cqes_add(t, i) == i * size_of(t)

\* ------------------------------------------------------------- history
\* How far counter value b lies ahead of counter value a (behind: negative).
Delta(b, a) ==
    LET d == wrapping_sub(b, a)
    IN  IF d[1] < Half \div 2 THEN as_usize(d)
        ELSE 0 - as_usize(wrapping_sub(a, b))

\* a draining call that also reloads the tail
Drained_reloading(w, r, how) ==
    [w EXCEPT !.head = r.head,
              !.head_abs = @ + Delta(r.head, w.head),
              !.tail = q_tail,
              !.tail_abs = n_published,
              !.consumed = @ + Len(r.ret),
              !.drained = TRUE,
              !.saw_none = IF how = "pop" THEN FALSE
                           ELSE @ \/ (how = "next" /\ r.ret = <<>>),
              !.ever_none = @ \/ (how = "next" /\ r.ret = <<>>)]

\* What a draining call (pop, next, fill) that returned r leaves of view w.
Drained(w, r, how) ==
    [w EXCEPT !.head = r.head,
              !.head_abs = @ + Delta(r.head, w.head),
              !.consumed = @ + Len(r.ret),
              !.drained = TRUE,
              !.saw_none = IF how = "pop" THEN FALSE
                           ELSE @ \/ (how = "next" /\ r.ret = <<>>),
              !.ever_none = @ \/ (how = "next" /\ r.ret = <<>>)]

\* The position, not wrapped, of a head or tail value a view has loaded.
HeadAbs(h) == q_head_abs + Delta(h, q_head)
TailAbs(t) == n_published + Delta(t, q_tail)

Ready(v) == views[v].alive /\ views[v].pc = "ready"

NoneAlive == \A v \in ViewIds : ~views[v].alive

FirstFree(v) == ~views[v].alive /\ \A u \in ViewIds : u < v => views[u].alive

NewView(kind) ==
    [NoView EXCEPT !.alive = TRUE, !.kind = kind,
                   !.head = borrow_shared.head, !.tail = borrow_shared.tail,
                   !.head_abs = HeadAbs(borrow_shared.head),
                   !.tail_abs = TailAbs(borrow_shared.tail),
                   !.borrow_head = borrow_shared.head,
                   !.borrow_head_abs = HeadAbs(borrow_shared.head),
                   !.borrow_tail_abs = TailAbs(borrow_shared.tail),
                   !.out_start = Len(delivered)]

\* The view released by the operation just before this one, if it was a
\* release.
Released == IF last.op = "drop" THEN last.pre ELSE NoView

\* Where the kernel stands: it changes with every step of the kernel.
KernelNow == <<k_pc, n_published, q_overflow>>

\* This call of sync() on view v follows a call of sync() on v with no
\* step of the kernel and no other call in between.
SyncAgain(v) ==
    /\ last.op = "sync"
    /\ last.view = v
    /\ last.val.kernel = KernelNow

\* The load of this call of sync() on view v follows its store with no step
\* of the kernel in between, and the call follows another as SyncAgain says.
SyncAgainDone(v) ==
    /\ last.op = "sync_store"
    /\ last.view = v
    /\ last.val.again
    /\ last.val.kernel = KernelNow

\* ------------------------------------------------------------- actions
\* One action per call on the ring or on a view.  sync() is two steps, its
\* store and its load, between which the kernel may run; borrow_shared
\* reads the head only this process writes, and pop, next and fill touch
\* nothing but the view and the slots below its tail, so each is one step.
\* Inner::borrow(&mut self): no other view of the ring is alive
Borrow(v) ==
    /\ NoneAlive
    /\ FirstFree(v)
    /\ views' = [views EXCEPT ![v] = NewView("exclusive")]
    /\ last' = [NoOp EXCEPT !.op = "borrow", !.view = v, !.pre = Released]
    /\ UNCHANGED <<shared, kernel_hist, q_head_abs, delivered, empty_pops>>

\* Inner::borrow_shared(&self): other views may be alive
BorrowShared(v) ==
    /\ FirstFree(v)
    /\ views' = [views EXCEPT ![v] = NewView("shared")]
    /\ last' = [NoOp EXCEPT !.op = "borrow_shared", !.view = v]
    /\ UNCHANGED <<shared, kernel_hist, q_head_abs, delivered, empty_pops>>

\* sync(): the store of the local head
SyncStore(v) ==
    /\ Ready(v)
    /\ q_head' = sync_store(views[v])
    /\ q_head_abs' = q_head_abs + Delta(q_head', q_head)
    /\ views' = [views EXCEPT ![v].pc = "sync", ![v].drained = TRUE,
                              ![v].synced = TRUE]
    /\ last' = [NoOp EXCEPT
                  !.op = "sync_store", !.view = v, !.pre = views[v],
                  !.val = IF SyncAgain(v)
                          THEN [again |-> TRUE, kernel |-> KernelNow,
                                first |-> <<q_head, views[v].head,
                                            views[v].tail>>]
                          ELSE [again |-> FALSE, kernel |-> <<>>,
                                first |-> <<>>]]
    /\ UNCHANGED <<q_tail, q_overflow, q_flags, cqes, kernel_hist,
                   delivered, empty_pops>>

\* sync(): the load of the shared tail
SyncLoad(v) ==
    /\ views[v].alive
    /\ views[v].pc = "sync"
    /\ views' = [views EXCEPT ![v].pc = "ready",
                              ![v].tail = sync_load(views[v]),
                              ![v].tail_abs = TailAbs(sync_load(views[v])),
                              ![v].saw_none = FALSE]
    /\ last' = [NoOp EXCEPT
                  !.op = "sync", !.view = v, !.pre = views[v],
                  !.val = [again |-> SyncAgainDone(v), kernel |-> KernelNow,
                           first |-> IF SyncAgainDone(v) THEN last.val.first
                                     ELSE <<>>]]
    /\ UNCHANGED <<shared, kernel_hist, q_head_abs, delivered, empty_pops>>

\* what the read-only queries of view w answer
Answers(w) ==
    [capacity |-> capacity, overflow |-> overflow,
     eventfd_disabled |-> eventfd_disabled, len |-> len(w),
     is_empty |-> is_empty(w), is_full |-> is_full(w),
     size_hint |-> size_hint(w)]

\* the read-only queries of a view, all called
Query(v) ==
    /\ Ready(v)
    /\ last' = [NoOp EXCEPT !.op = "query", !.view = v, !.pre = views[v],
                            !.val = Answers(views[v])]
    /\ UNCHANGED <<shared, kernel_hist, views, q_head_abs, delivered,
                   empty_pops>>

\* a draining call that also stores the new head to the shared head
Drain_publishing(v, r, how, arg) ==
    /\ Len(delivered) + Len(r.ret) <= MaxDelivered
    /\ views' = [views EXCEPT ![v] = Drained(views[v], r, how)]
    /\ delivered' = delivered \o r.ret
    /\ last' = [NoOp EXCEPT !.op = how, !.view = v, !.arg = arg,
                            !.ret = r.ret, !.pre = views[v]]
    /\ q_head' = r.head
    /\ q_head_abs' = q_head_abs + Delta(r.head, q_head)
    /\ UNCHANGED <<q_tail, q_overflow, q_flags, cqes, kernel_hist>>

\* What a draining call leaves: the view, the entries handed out, the record.
Drain(v, r, how, arg) ==
    /\ Len(delivered) + Len(r.ret) <= MaxDelivered
    /\ views' = [views EXCEPT ![v] = Drained(views[v], r, how)]
    /\ delivered' = delivered \o r.ret
    /\ last' = [NoOp EXCEPT !.op = how, !.view = v, !.arg = arg,
                            !.ret = r.ret, !.pre = views[v]]
    /\ UNCHANGED <<shared, kernel_hist, q_head_abs>>

\* unsafe pop(), called as its contract asks: on a view that is not empty
Pop(v) ==
    /\ Ready(v)
    /\ len(views[v]) # u32(0)
    /\ UNCHANGED empty_pops
    /\ Drain(v, pop(views[v]), "pop", 0)

\* unsafe pop() on an empty view: nothing in the code checks for it
PopEmpty(v) ==
    /\ Ready(v)
    /\ len(views[v]) = u32(0)
    /\ empty_pops < MaxEmptyPops
    /\ empty_pops' = empty_pops + 1
    /\ Drain(v, pop(views[v]), "pop", 0)

IterNext(v) ==
    /\ Ready(v)
    /\ UNCHANGED empty_pops
    /\ Drain(v, next(views[v]), "next", 0)

Fill(v, n) ==
    /\ Ready(v)
    /\ UNCHANGED empty_pops
    /\ Drain(v, fill(views[v], n), "fill", n)

\* the end of the borrow
Drop(v) ==
    /\ Ready(v)
    /\ q_head' = drop(views[v])
    /\ q_head_abs' = q_head_abs + Delta(q_head', q_head)
    /\ views' = [views EXCEPT ![v] = NoView]
    /\ last' = [NoOp EXCEPT !.op = "drop", !.view = v, !.pre = views[v]]
    /\ UNCHANGED <<q_tail, q_overflow, q_flags, cqes, kernel_hist,
                   delivered, empty_pops>>

Kernel == kernel_begin \/ kernel_finish \/ kernel_publish \/ kernel_overflow

ViewStep(v) ==
    \/ SyncStore(v)
    \/ SyncLoad(v)
    \/ Query(v)
    \/ Pop(v)
    \/ IterNext(v)
    \/ \E n \in 0 .. MaxBuf : Fill(v, n)
    \/ Drop(v)

\* Views are borrowed through the exclusive borrow, one at a time, and
\* pop() is called only on a view that is not empty.
Next ==
    \/ Kernel
    \/ \E v \in ViewIds : Borrow(v) \/ ViewStep(v)

Spec == Init /\ [][Next]_vars

\* No view but v has drained: two views never drain at the same time.
SoleDrainer(v) ==
    \A u \in ViewIds \ {v} : views[u].alive => ~views[u].drained

\* next() on the one view that drains
IterateAlone(v) == SoleDrainer(v) /\ IterNext(v)

\* Views are borrowed through the shared borrow, several at a time; they are
\* queried and released, and one of them at a time is iterated.
NextShared ==
    \/ Kernel
    \/ \E v \in ViewIds :
          BorrowShared(v) \/ Query(v) \/ IterateAlone(v) \/ Drop(v)

SpecShared == Init /\ [][NextShared]_vars

\* As Spec, and pop() is called on empty views too.
NextUnchecked ==
    \/ Kernel
    \/ \E v \in ViewIds : Borrow(v) \/ ViewStep(v) \/ PopEmpty(v)

SpecUnchecked == Init /\ [][NextUnchecked]_vars

\* The flag decoder applied to a flags word.
BufferSelect(flags) ==
    /\ last' = [NoOp EXCEPT !.op = "buffer_select", !.arg = flags,
                            !.val = buffer_select(flags)]
    /\ UNCHANGED <<shared, kernel_hist, views, q_head_abs, delivered,
                   empty_pops>>

\* The entry array of a ring of the given entry type: the size of an entry
\* and the byte offset at which pop() reads each slot.
EntryArray(kind) ==
    /\ last' = [NoOp EXCEPT
                  !.op = "entry_array", !.arg = kind,
                  !.val = [size   |-> size_of(EntryType(kind)),
                           starts |-> [i \in Slots |->
                                          cqes_add(EntryType(kind), i)]]]
    /\ UNCHANGED <<shared, kernel_hist, views, q_head_abs, delivered,
                   empty_pops>>

\* The entry types and the flag decoders: functions of their inputs alone.
NextEntry ==
    \/ \E flags \in FlagWords : BufferSelect(flags)
    \/ \E kind \in EntryKinds : EntryArray(kind)

SpecEntry == Init /\ [][NextEntry]_vars

TypeOK ==
    /\ q_head \in U32
    /\ q_tail \in U32
    /\ Len(delivered) <= MaxDelivered

\* ------------------------------------------------------------- claims
\* The entries the producer announced at positions a+1 .. b, complete.
Expected(a, b) ==
    [i \in 1 .. (b - a) |-> [user_data |-> a + i, state |-> "full"]]

\* The entries view v has returned since it was borrowed.
out(v) == SubSeq(delivered, views[v].out_start + 1, Len(delivered))

\* The sequence numbers of the entries returned so far.
DeliveredIds == {delivered[i].user_data : i \in 1 .. Len(delivered)}

\* The slot that holds the k-th entry the producer announced.
EntrySlot(k) == slot_of(wrapping_sub(q_tail, u32(n_published - k + 1)))

\* C1: when next() returns None on a view whose tail is still the one it was
\* borrowed with, the view has returned exactly the N <= capacity entries
\* announced before the borrow and not consumed before it, oldest first,
\* and its len() is 0.
C1_DrainYieldsAnnouncedFifo ==
    \A v \in ViewIds :
        ( /\ views[v].alive
          /\ last.op = "next" /\ last.view = v /\ last.ret = <<>>
          /\ ~views[v].synced )
        => /\ out(v) = Expected(views[v].borrow_head_abs,
                                views[v].borrow_tail_abs)
           /\ Len(out(v)) <= capacity
           /\ len(views[v]) = u32(0)

\* A view borrowed on a full ring, with the counters wrapping past 2^32 - 1
\* inside it, has been drained by next() to None.
C1_Witness ==
    \E v \in ViewIds :
        /\ views[v].alive /\ ~views[v].synced
        /\ last.op = "next" /\ last.view = v /\ last.ret = <<>>
        /\ Len(out(v)) = capacity
        /\ views[v].borrow_head[1] = Half - 1
        /\ views[v].head[1] = 0

\* C2: a release stores borrow-time head + k to the shared head, k the
\* number of entries the view consumed, and the view borrowed next starts
\* with that head.
C2_DropPublishesHead ==
    /\ last.op = "drop" =>
          q_head = wrapping_add(last.pre.borrow_head, last.pre.consumed)
    /\ (last.op = "borrow" /\ last.pre.alive) =>
          views[last.view].head =
              wrapping_add(last.pre.borrow_head, last.pre.consumed)

\* A view has been borrowed right after the release of a view that consumed
\* entries across the counters' wrap and never called sync().
C2_Witness ==
    /\ last.op = "borrow"
    /\ last.pre.alive /\ ~last.pre.synced
    /\ last.pre.consumed >= 2
    /\ last.pre.borrow_head[1] = Half - 1
    /\ views[last.view].head[1] = 0

\* C3: every entry next() or fill() returns is one the producer had written
\* completely.
C3_NoPartialEntryRead ==
    last.op \in {"next", "fill"} =>
        \A i \in 1 .. Len(last.ret) : last.ret[i].state = "full"

\* next() has returned an entry while the producer is in the middle of
\* writing into a slot it reuses.
C3_Witness ==
    /\ last.op = "next" /\ last.ret # <<>>
    /\ k_pc = "writing"
    /\ n_published >= ring_entries

\* C4: every entry announced is either returned already or still whole in
\* its slot, and the shared head covers only entries already returned.
C4_HeadCoversOnlyReturned ==
    /\ \A k \in 1 .. n_published :
          \/ k \in DeliveredIds
          \/ cqes[EntrySlot(k)] = [user_data |-> k, state |-> "full"]
    /\ \A k \in 1 .. q_head_abs : k \in DeliveredIds

\* The producer has reused a slot the shared head had passed.
C4_Witness ==
    /\ \E s \in Slots : cqes[s].user_data > ring_entries
    /\ q_head_abs > 0

\* C5: every view satisfies len() <= ring_entries.
C5_LenWithinCapacity ==
    \A v \in ViewIds : views[v].alive => u32_le(len(views[v]), ring_entries)

\* A view holds ring_entries entries, its tail wrapped and its head not.
C5_Witness ==
    \E v \in ViewIds :
        /\ views[v].alive
        /\ len(views[v]) = u32(ring_entries)
        /\ views[v].head[1] = Half - 1
        /\ views[v].tail[1] = 0
        /\ views[v].synced

\* the smaller of two naturals
Smaller(a, b) == IF a <= b THEN a ELSE b

\* C6: fill(buffer) returns exactly min(len(), buffer.len()) entries, the
\* oldest unconsumed ones in order, and len() decreases by that number;
\* never more than len() before the call.
C6_FillTakesMin ==
    last.op = "fill" =>
        LET before == as_usize(len(last.pre))
            k      == Smaller(before, last.arg)
        IN  /\ Len(last.ret) = k
            /\ last.ret = Expected(last.pre.head_abs, last.pre.head_abs + k)
            /\ len(views[last.view]) = u32(before - k)
            /\ views[last.view].tail = last.pre.tail

\* fill() was called with a buffer shorter than len(), on a view whose
\* entries lie across the counters' wrap.
C6_Witness ==
    /\ last.op = "fill"
    /\ last.arg >= 1
    /\ last.arg < as_usize(len(last.pre))
    /\ last.pre.head[1] = Half - 1
    /\ last.pre.tail[1] = 0

\* C7: len() is the number of entries announced to the view (up to its
\* tail) and not yet consumed by it, a number in 0 .. 2^32 - 1 equal to
\* tail - head modulo 2^32.
C7_LenIsUnconsumedCount ==
    \A v \in ViewIds :
        views[v].alive =>
            /\ views[v].tail_abs >= views[v].head_abs
            /\ len(views[v]) = u32(views[v].tail_abs - views[v].head_abs)
            /\ wrapping_add(views[v].head, as_usize(len(views[v])))
                   = views[v].tail

\* A view whose tail has wrapped to a small value while its head is still
\* just below 2^32, with entries in it.
C7_Witness ==
    \E v \in ViewIds :
        /\ views[v].alive
        /\ views[v].head[1] = Half - 1
        /\ views[v].tail[1] = 0
        /\ views[v].tail_abs - views[v].head_abs >= 1
        /\ views[v].drained

\* How far the shared head moves in a step: forward, by at most the ring.
HeadStepsForward ==
    u32_le(wrapping_sub(q_head', q_head), ring_entries)

\* C8: every step leaves the shared head where it was or moves it forward
\* (modulo 2^32), and never past the shared tail.
C8_SharedHeadMonotonic ==
    [][ /\ HeadStepsForward
        /\ u32_le(wrapping_sub(q_tail', q_head'), ring_entries)
        /\ q_head_abs' >= q_head_abs
        /\ q_head_abs' <= n_published'
      ]_vars

\* The shared head has been stored by sync() and by a release, and has
\* wrapped past 2^32 - 1 on the way.
C8_Witness ==
    /\ last.op = "drop"
    /\ last.pre.synced
    /\ q_head[1] = 0
    /\ q_head_abs >= 2
    /\ q_head_abs > last.pre.borrow_head_abs

\* C9: no step of a view borrowed through the shared borrow and only
\* queried, its queries and its release, changes the shared head.
C9_ReadOnlyViewKeepsHead ==
    [][ \A v \in ViewIds :
          ( /\ views[v].alive
            /\ views[v].kind = "shared"
            /\ ~views[v].drained
            /\ \/ ~views'[v].alive
               \/ last' # last /\ last'.view = v /\ last'.op = "query" )
          => q_head' = q_head
      ]_vars

\* C10 as stated: once next() has returned None on a view, every later
\* next() on that view returns None.
C10_NoneIsPermanent ==
    (last.op = "next" /\ last.pre.ever_none) => last.ret = <<>>

\* C10: once next() has returned None on a view, every later next() on that
\* view returns None as long as neither sync() nor pop() has been called
\* on it since.
C10_NoneUntilSyncOrPop ==
    (last.op = "next" /\ last.pre.saw_none) => last.ret = <<>>

\* next() is called again on a view on which it returned None, after the
\* producer has announced an entry the view has not seen.
C10_Witness ==
    /\ last.op = "next"
    /\ last.pre.saw_none
    /\ n_published > last.pre.tail_abs
    /\ last.ret = <<>>

\* C11: a second sync() right after a sync(), with no step of the kernel and
\* no other call between or inside the two, leaves the shared head, the
\* local head and the local tail as the first call left them.
C11_SyncIdempotent ==
    (last.op = "sync" /\ last.val.again) =>
        <<q_head, views[last.view].head, views[last.view].tail>>
            = last.val.first

\* sync() was called twice in succession on a view that had consumed
\* entries and whose first sync() had picked up entries appended after the
\* borrow.
C11_Witness ==
    /\ last.op = "sync" /\ last.val.again
    /\ views[last.view].consumed >= 1
    /\ views[last.view].tail_abs > views[last.view].borrow_tail_abs
    /\ len(views[last.view]) # u32(0)

\* C12: in every state of a view, is_empty() answers true exactly when
\* len() is 0, that is when the view has nothing unconsumed, is_full()
\* answers true exactly when len() equals capacity(), that is when
\* ring_entries entries are unconsumed, and capacity() is the ring size
\* fixed at setup.
C12_EmptyFullMatchLen ==
    last.op = "query" =>
        LET a == last.val
            n == last.pre.tail_abs - last.pre.head_abs
        IN  /\ a.capacity = 2 ^ RingOrder
            /\ a.is_empty <=> (a.len = u32(0))
            /\ a.is_empty <=> (n = 0)
            /\ a.is_full <=> (a.len = u32(a.capacity))
            /\ a.is_full <=> (n = a.capacity)

\* A full view was queried whose tail had wrapped past 2^32-1 and whose
\* head had not.
C12_Witness ==
    /\ last.op = "query"
    /\ last.val.is_full /\ ~last.val.is_empty
    /\ last.pre.head[1] = Half - 1
    /\ last.pre.tail[1] = 0

\* C13: for every 32-bit flags word, buffer_select returns Some(k), k being
\* the flags shifted right by the buffer shift (the upper 16 bits), when the
\* buffer-selected bit (bit 0) is set, and None when it is clear, whatever
\* the other bits are.
C13_BufferSelectDecodes ==
    last.op = "buffer_select" =>
        LET hi == last.arg[1]
            lo == last.arg[2]
        IN  IF lo % 2 = 1 THEN last.val = <<hi>> ELSE last.val = <<>>

\* The decoder was applied to a word with the buffer bit and another low
\* bit set, and to an identifier that differs from the low half.
C13_Witness ==
    /\ last.op = "buffer_select"
    /\ last.arg = <<256, 3>>
    /\ last.val = <<256>>

\* C14: a compact entry is 16 bytes and an extended entry 32 bytes, slot i
\* of the entry array starts at byte i * 16 or i * 32, and no two slots
\* overlap.
C14_EntryLayout ==
    last.op = "entry_array" =>
        LET sz == IF last.arg = "Entry" THEN 16 ELSE 32
            at == last.val.starts
        IN  /\ last.val.size = sz
            /\ \A i \in Slots : at[i] = i * sz
            /\ \A i, j \in Slots :
                   i # j => (at[i] + sz <= at[j] \/ at[j] + sz <= at[i])

\* The entry array of a ring of extended entries was laid out.
C14_Witness ==
    /\ last.op = "entry_array"
    /\ last.arg = "Entry32"
    /\ last.val.starts[ring_entries - 1] = 32 * (ring_entries - 1)

\* C15: sync() first stores the local head to the shared head and then sets
\* the local tail to the shared tail of that moment: after the store the
\* shared head equals the local head and the local tail is still the old
\* one; after the load the shared head equals the local head, the local
\* head is what it was, and len() is the number of entries the producer had
\* announced by the load and the view has not consumed.
C15_SyncPublishesThenReloads ==
    LET w == views[last.view]
    IN  /\ last.op = "sync_store" =>
               /\ q_head = w.head
               /\ w.head = last.pre.head
               /\ w.tail = last.pre.tail
        /\ last.op = "sync" =>
               /\ q_head = w.head
               /\ w.head = last.pre.head
               /\ w.tail_abs = last.val.kernel[2]
               /\ len(w) = u32(last.val.kernel[2] - w.head_abs)

\* sync() was called on a view that had consumed entries, and gave it
\* entries the producer appended after the borrow.
C15_Witness ==
    /\ last.op = "sync"
    /\ views[last.view].consumed >= 1
    /\ views[last.view].tail_abs > views[last.view].borrow_tail_abs
    /\ last.pre.tail # views[last.view].tail
    /\ len(views[last.view]) = u32(ring_entries)

\* C16: a call of pop(), next() or fill() changes nothing but the local
\* head of its view: the shared head, the shared tail, the overflow
\* counter, the ring flags and the entry array are as before, and so is
\* the view's local tail and every other view; the producer sees no slot
\* freed by it.
C16_DrainKeepsSharedState ==
    [][(last' # last /\ last'.op \in {"pop", "next", "fill"}) =>
          /\ UNCHANGED <<q_head, q_tail, q_overflow, q_flags, cqes>>
          /\ views'[last'.view].tail = views[last'.view].tail
          /\ \A u \in ViewIds \ {last'.view} : views'[u] = views[u]]_vars

\* fill() took a whole ring of entries, and the producer still finds the
\* ring full: the shared head is behind the view's head.
C16_Witness ==
    /\ last.op = "fill"
    /\ Len(last.ret) = ring_entries
    /\ ~kernel_has_room
    /\ q_head # views[last.view].head
    /\ q_head_abs + ring_entries = views[last.view].head_abs

\* C17: the local tail of a view is the shared tail read at the borrow and
\* changes only inside sync(), by its load of the shared tail: a step of the
\* producer and every other call on the view leave it as it is.
C17_TailChangesOnlyInSync ==
    [][\A v \in ViewIds :
          (views[v].alive /\ views'[v].alive
              /\ views'[v].tail # views[v].tail) =>
                /\ views[v].pc = "sync"
                /\ views'[v].pc = "ready"
                /\ last'.op = "sync"
                /\ last'.view = v
                /\ UNCHANGED <<q_tail, n_published>>
                /\ views'[v].tail = q_tail]_vars

\* A view that never called sync() has drained what it was borrowed with
\* and been told None, the producer has announced more meanwhile, and the
\* view's tail is still the one read at the borrow.
C17_Witness ==
    /\ last.op = "next"
    /\ last.ret = <<>>
    /\ ~views[last.view].synced
    /\ views[last.view].consumed >= 1
    /\ views[last.view].tail_abs = views[last.view].borrow_tail_abs
    /\ n_published > views[last.view].tail_abs
    /\ q_tail # views[last.view].tail

\* C18: pop() on a view with len() > 0 returns a copy of the entry in slot
\* (head AND ring_mask), the oldest the view has not consumed, and moves the
\* local head forward by exactly one modulo 2^32, from 2^32-1 to 0; and the
\* len() <= ring_entries consecutive pops a view has before it read
\* pairwise distinct slots, also when the head wraps on the way.
C18_PopReadsSlotAndStepsHead ==
    /\ last.op = "pop" =>
           LET p == last.pre
               i == p.head[2] % (2 ^ RingOrder)
           IN  /\ last.ret = <<cqes[i]>>
               /\ cqes[i] = [user_data |-> p.head_abs + 1, state |-> "full"]
               /\ views[last.view].head =
                      IF p.head[2] < Half - 1 THEN <<p.head[1], p.head[2] + 1>>
                      ELSE IF p.head[1] < Half - 1 THEN <<p.head[1] + 1, 0>>
                      ELSE <<0, 0>>
    /\ \A v \in ViewIds :
           views[v].alive =>
               LET n == as_usize(len(views[v]))
                   slot(k) == slot_of(wrapping_add(views[v].head, k))
               IN  \A a, b \in 0 .. (n - 1) : a # b => slot(a) # slot(b)

\* pop() was called with the local head at 2^32-1 and left it at 0, with an
\* entry still to pop.
C18_Witness ==
    /\ last.op = "pop"
    /\ last.pre.head = <<Half - 1, Half - 1>>
    /\ views[last.view].head = <<0, 0>>
    /\ len(views[last.view]) = u32(1)

\* C19: however the producer's appends interleave with the consumer's
\* cycles of exclusive borrow, pop()/next()/fill(), sync() and release, the
\* entries returned so far, in the order returned, are the first entries
\* the producer announced, in its order and complete: none is lost,
\* returned twice or out of order, also when slots are reused.
C19_ReturnedIsPrefixOfAppended ==
    /\ Len(delivered) <= n_published
    /\ \A i \in 1 .. Len(delivered) :
           delivered[i] = [user_data |-> i, state |-> "full"]

\* More entries than the ring has slots were returned, over more than one
\* borrow and with a sync() in the last one, and the last view is released.
C19_Witness ==
    /\ Len(delivered) > ring_entries
    /\ Len(delivered) = n_published
    /\ last.op = "drop"
    /\ last.pre.synced
    /\ last.pre.borrow_head_abs > 0
    /\ last.pre.consumed >= 1

\* C20: on a view with len() <= capacity, next() returns Some when len() is
\* not 0, and len() is then one less than before the call; it returns None
\* when len() is 0 and leaves the view as it is.  With no sync() since the
\* borrow, the entries the view has consumed and its len() add up to the
\* len() it was borrowed with, and next() returns None exactly when that
\* many entries were consumed before the call.
C20_NextCountsDownToNone ==
    last.op = "next" =>
        LET p == last.pre
            w == views[last.view]
            n == as_usize(wrapping_sub(w.tail, w.borrow_head))
        IN  /\ len(p) = u32(0) =>
                   last.ret = <<>> /\ w.head = p.head /\ len(w) = u32(0)
            /\ len(p) # u32(0) =>
                   /\ Len(last.ret) = 1
                   /\ wrapping_add(len(w), 1) = len(p)
                   /\ w.consumed = p.consumed + 1
            /\ ~w.synced =>
                   /\ n <= capacity
                   /\ w.consumed + as_usize(len(w)) = n
                   /\ last.ret = <<>> <=> p.consumed = n

\* next() on a view borrowed with a full ring and never synced returned its
\* last entry, the len()-th, and the call after it returned None.
C20_Witness ==
    /\ last.op = "next"
    /\ last.ret = <<>>
    /\ ~views[last.view].synced
    /\ views[last.view].consumed = ring_entries
    /\ wrapping_sub(views[last.view].tail, views[last.view].borrow_head)
           = u32(ring_entries)
    /\ last.pre.consumed = ring_entries
    /\ q_head = views[last.view].borrow_head
    /\ q_head # views[last.view].head

====
